---- MODULE Spec2Model ----
(***************************************************************************)
(* Replication commands of tendisplus (src/tendisplus/commands/repl.cpp):  *)
(* pullbinlogs, applybinlogs, restorebinlog, slaveof, backup.  Each        *)
(* command handler is translated from its run() method.  The collaborators *)
(* the handlers call (the binlog cursor, ReplLog::encode/decode, the       *)
(* storage transaction, the segment manager with its shard locks and the   *)
(* replication manager) are not part of the file; they are modelled from   *)
(* their documented contract.                                              *)
(*                                                                         *)
(* SpecPull: a shard with a binlog and a client that pulls it.             *)
(* SpecWrite: one applybinlogs or restorebinlog request, from its arrival  *)
(* to its reply, on a storage with any content.                            *)
(* SpecTopo: a slaveof request and the one after it, or a backup request.  *)
(* SpecLock: threads that serve requests at the same time and the shard    *)
(* locks they take.                                                        *)
(* SpecLockFair: SpecLock where every thread runs and locks are granted.   *)
(* Spec: one request of any command on a server with a shard that is not   *)
(* open.                                                                   *)
(***************************************************************************)
EXTENDS Integers, Sequences, FiniteSets, TLC

(***************************************************************************)
(* Bounds of the model.                                                    *)
(***************************************************************************)
\* getKVStoreCount(): number of shards of the server
KVStoreCount == 2
\* largest transaction id a committed record or a request carries
MaxTxnId == 2
\* largest number of transactions in one shard's binlog
MaxTxns == 2
\* largest args.size() of an applybinlogs or restorebinlog request
MaxArgs == 7
\* the cursor may fail on any of its first MaxCursorFault calls of next()
MaxCursorFault == 2
\* number of request-handling threads that serve requests at the same time
NumThreads == 2

(***************************************************************************)
(* Program constants.                                                      *)
(***************************************************************************)
\* binlogs.size() >= 1000
kPullSoftCap == 1000
\* enum class ReplFlag
REPL_GROUP_START == 1
REPL_GROUP_END == 2
\* enum class ReplOp
REPL_OP_SET == 1
REPL_OP_DEL == 2
\* Transaction::TXNID_UNINITED: a value no committed transaction carries
TXNID_UNINITED == MaxTxnId + 2

Stores == 0 .. (KVStoreCount - 1)
Threads == 1 .. NumThreads
TxnIds == 1 .. MaxTxnId

\* flag & bit, for the two one-bit masks above
HasFlag(flag, bit) == (flag \div bit) % 2 = 1

(***************************************************************************)
(* Strings.  A string is a tuple of naturals whose first element tells     *)
(* what the bytes are: 1 an encoded ReplLogKey, 2 an encoded ReplLogValue, *)
(* 3 a decimal number, 4 a decimal number followed by other characters,    *)
(* 5 a word, 0 anything else.                                              *)
(***************************************************************************)
NumStr(n) == <<3, n>>
JunkStr == <<0, 0>>
PrefixStr(n) == <<4, n>>
\* the words of a slaveof request: "", "no", "NO", "one", "ONE", a host name
\* and another
EmptyStr == <<5, 0>>
NoWord == <<5, 1>>
NoUpper == <<5, 2>>
OneWord == <<5, 3>>
OneUpper == <<5, 4>>
HostA == <<5, 5>>
HostB == <<5, 6>>

\* toLower
toLower(s) ==
    IF s = NoUpper THEN NoWord ELSE IF s = OneUpper THEN OneWord ELSE s

\* std::stoul: the number the string starts with; throws when it starts with
\* none
std_stoul(s) ==
    IF s[1] \in {3, 4} THEN [ok |-> TRUE, value |-> s[2]]
    ELSE [ok |-> FALSE, value |-> 0]

\* ::tendisplus::stoul
stoul(s) ==
    IF s[1] = 3 THEN [ok |-> TRUE, value |-> s[2]]
    ELSE [ok |-> FALSE, value |-> 0]

\* ReplLog::encode: the (key, value) pair of a record
encode(r) ==
    [first |-> <<1, r.txnId, r.localId, r.flag>>,
     second |-> <<2, r.op, r.opKey, r.opValue>>]

NoLog == [txnId |-> 0, localId |-> 0, flag |-> 0, op |-> 0, opKey |-> 0, opValue |-> 0]

\* ReplLog::decode: fails unless k is an encoded key and v an encoded value
decode(k, v) ==
    IF k[1] = 1 /\ Len(k) = 4 /\ v[1] = 2 /\ Len(v) = 4
    THEN [ok |-> TRUE,
          value |-> [txnId |-> k[2], localId |-> k[3], flag |-> k[4],
                     op |-> v[2], opKey |-> v[3], opValue |-> v[4]]]
    ELSE [ok |-> FALSE, value |-> NoLog]

(***************************************************************************)
(* Replies.                                                                *)
(***************************************************************************)
NoReply == [kind |-> "none", code |-> "", pos |-> 0, bulks |-> <<>>]
\* Command::fmtOK
fmtOK == [kind |-> "status", code |-> "ERR_OK", pos |-> 0, bulks |-> <<>>]
\* a returned Status that is not ok
ErrReply(c) == [kind |-> "error", code |-> c, pos |-> 0, bulks |-> <<>>]
\* LOG(FATAL): the process is aborted, nothing is returned
FatalReply == [kind |-> "fatal", code |-> "", pos |-> 0, bulks |-> <<>>]

VARIABLES
    binlog,     \* binlog[s]: the committed log records of shard s, in log order
    kv,         \* kv[s][k]: value stored under key k of shard s, 0 if absent
    isOpen,     \* isOpen[s]: shard s is open
    pc,         \* position of the request-handling thread
    req,        \* the request being served, or the last one served
    resp,       \* the reply to req
    sess,       \* the pull session of the client: shard, first position, next position
    delivered,  \* the records the pull session has received so far
    lock,       \* the shard lock the request-handling thread holds
    pending,    \* the batches replMgr->applyBinlogs has still to apply
    repl,       \* what the replication manager was handed and what it committed
    trace,      \* what the handler did: records decoded, locks taken, reads past the end
    kv0,        \* the storage when the request arrived
    threads,    \* threads[t]: the request thread t serves, the shard whose lock it asks for,
                \* the shards whose lock it holds and the threads that asked before it
    replSource, \* replSource[s]: the replication source of shard s
    topo,       \* what the slaveof or backup handler did, and the sources it found
    prev        \* the slaveof request served before req, its reply and the sources it found

vars == <<binlog, kv, isOpen, pc, req, resp, sess, delivered, lock, pending, repl, trace, kv0,
          threads, replSource, topo, prev>>
topoVars == <<replSource, topo, prev>>
writeVars == <<lock, pending, repl, trace, kv0>>

NoReq == [cmd |-> "none", store |-> 0, pos |-> 0, args |-> <<>>]
NoSess == [store |-> 0, from |-> 0, next |-> 0, pulls |-> 0]
NoLock == [held |-> FALSE, store |-> 0, mode |-> ""]
NoRepl == [invoked |-> 0, store |-> 0, handed |-> <<>>, applied |-> <<>>, status |-> "ERR_OK"]
NoFault == [createTransaction |-> FALSE, writeAt |-> 0, commit |-> "ERR_OK"]
\* a shard that replicates from nobody: changeReplSource(storeId, "", 0, 0)
Detached == [host |-> EmptyStr, port |-> 0, sourceStoreId |-> 0]
NoThread == [op |-> "none", sweep |-> FALSE, store |-> 0, at |-> "idle",
             held |-> {}, ahead |-> {}]
NoTopo == [calls |-> <<>>, locks |-> <<>>, backups |-> <<>>,
           before |-> [s \in Stores |-> Detached], fault |-> [at |-> 0, what |-> "none"]]
NoPrev == [cmd |-> "none", args |-> <<>>, reply |-> NoReply,
           before |-> [s \in Stores |-> Detached]]
NoTrace == [decoded |-> <<>>, locks |-> 0, pastEnd |-> FALSE,
            txns |-> 0, writes |-> 0, commits |-> 0, fault |-> NoFault]

(***************************************************************************)
(* pullbinlogs storeId startBinlogId                                       *)
(***************************************************************************)
\* txn->createBinlogCursor(binlogPos): the records at or after binlogPos
createBinlogCursor(log, binlogPos) ==
    SelectSeq(log, LAMBDA r : r.txnId >= binlogPos)

PullLoopInit ==
    [binlogs |-> <<>>, currId |-> TXNID_UNINITED, done |-> FALSE, err |-> FALSE, reads |-> 0]

\* PullLoopBody with the batch cut as soon as the cap is reached
PullLoopBody_CutAtCap(st, r, failAt) ==
    IF st.done THEN st
    ELSE IF st.reads + 1 = failAt
    THEN [st EXCEPT !.done = TRUE, !.err = TRUE, !.reads = st.reads + 1]
    ELSE IF Len(st.binlogs) >= kPullSoftCap
         THEN [st EXCEPT !.done = TRUE, !.reads = st.reads + 1]
         ELSE [binlogs |-> Append(st.binlogs, r), currId |-> r.txnId,
               done |-> FALSE, err |-> FALSE, reads |-> st.reads + 1]

\* PullLoopBody with the cap compared with > instead of >=
PullLoopBody_CapOffByOne(st, r, failAt) ==
    IF st.done THEN st
    ELSE IF st.reads + 1 = failAt
    THEN [st EXCEPT !.done = TRUE, !.err = TRUE, !.reads = st.reads + 1]
    ELSE LET tmpId == r.txnId
             currId == IF st.currId = TXNID_UNINITED THEN tmpId ELSE st.currId
         IN  IF Len(st.binlogs) > kPullSoftCap /\ tmpId # currId
             THEN [st EXCEPT !.done = TRUE, !.reads = st.reads + 1]
             ELSE [binlogs |-> Append(st.binlogs, r), currId |-> tmpId,
                   done |-> FALSE, err |-> FALSE, reads |-> st.reads + 1]

\* one iteration of while(true): explog = cursor->next() has returned record r,
\* or an error other than ERR_EXHAUST when this is call number failAt
PullLoopBody(st, r, failAt) ==
    IF st.done THEN st
    ELSE IF st.reads + 1 = failAt
    THEN [st EXCEPT !.done = TRUE, !.err = TRUE, !.reads = st.reads + 1]
    ELSE LET tmpId == r.txnId
             currId == IF st.currId = TXNID_UNINITED THEN tmpId ELSE st.currId
         IN  IF Len(st.binlogs) >= kPullSoftCap /\ tmpId # currId
             THEN [st EXCEPT !.done = TRUE, !.reads = st.reads + 1]
             ELSE [binlogs |-> Append(st.binlogs, r), currId |-> tmpId,
                   done |-> FALSE, err |-> FALSE, reads |-> st.reads + 1]

\* the iterations over the records cur[lo..hi], in order
RECURSIVE PullLoopRange(_, _, _, _, _)
PullLoopRange(cur, lo, hi, st, failAt) ==
    IF lo > hi \/ st.done THEN st
    ELSE IF lo = hi THEN PullLoopBody(st, cur[lo], failAt)
    ELSE LET mid == (lo + hi) \div 2
             left == PullLoopRange(cur, lo, mid, st, failAt)
         IN  PullLoopRange(cur, mid + 1, hi, left, failAt)

\* the whole loop: the iterations over the cursor, then the call of next()
\* that finds the cursor exhausted (or failing)
PullLoop(cur, failAt) ==
    LET st == PullLoopRange(cur, 1, Len(cur), PullLoopInit, failAt)
    IN  IF st.done THEN st
        ELSE IF st.reads + 1 = failAt
        THEN [st EXCEPT !.done = TRUE, !.err = TRUE, !.reads = st.reads + 1]
        ELSE [st EXCEPT !.done = TRUE, !.reads = st.reads + 1]

\* the flattened key/value pairs of the collected records
RECURSIVE fmtBulks(_, _, _)
fmtBulks(binlogs, lo, hi) ==
    IF lo > hi THEN <<>>
    ELSE IF lo = hi
    THEN LET kvp == encode(binlogs[lo]) IN <<kvp.first, kvp.second>>
    ELSE LET mid == (lo + hi) \div 2
         IN  fmtBulks(binlogs, lo, mid) \o fmtBulks(binlogs, mid + 1, hi)

\* PullReply with the pairs of the first record sent last
PullReply_Rotated(binlogs, binlogPos) ==
    IF Len(binlogs) = 0
    THEN [kind |-> "array", code |-> "ERR_OK", pos |-> binlogPos, bulks |-> <<>>]
    ELSE [kind |-> "array", code |-> "ERR_OK",
          pos |-> binlogs[Len(binlogs)].txnId + 1,
          bulks |-> fmtBulks(binlogs, 2, Len(binlogs)) \o fmtBulks(binlogs, 1, 1)]

\* PullReply that answers an empty batch with position 0
PullReply_EmptyAtZero(binlogs, binlogPos) ==
    IF Len(binlogs) = 0
    THEN [kind |-> "array", code |-> "ERR_OK", pos |-> 0, bulks |-> <<>>]
    ELSE [kind |-> "array", code |-> "ERR_OK",
          pos |-> binlogs[Len(binlogs)].txnId + 1,
          bulks |-> fmtBulks(binlogs, 1, Len(binlogs))]

\* PullReply with the id of the last record as next position
PullReply_NoPlusOne(binlogs, binlogPos) ==
    IF Len(binlogs) = 0
    THEN [kind |-> "array", code |-> "ERR_OK", pos |-> binlogPos, bulks |-> <<>>]
    ELSE [kind |-> "array", code |-> "ERR_OK",
          pos |-> binlogs[Len(binlogs)].txnId,
          bulks |-> fmtBulks(binlogs, 1, Len(binlogs))]

\* the reply built after the loop
PullReply(binlogs, binlogPos) ==
    IF Len(binlogs) = 0
    THEN [kind |-> "array", code |-> "ERR_OK", pos |-> binlogPos, bulks |-> <<>>]
    ELSE [kind |-> "array", code |-> "ERR_OK",
          pos |-> binlogs[Len(binlogs)].txnId + 1,
          bulks |-> fmtBulks(binlogs, 1, Len(binlogs))]

\* PullBinlogsCommand::run.  txnFails: store->createTransaction() fails;
\* failAt: the call of cursor->next() that fails (0: none)
PullRun(storeArg, posArg, txnFails, failAt) ==
    LET exptStoreId == stoul(storeArg)
        exptBinlogId == stoul(posArg)
    IN  IF ~exptStoreId.ok THEN ErrReply("stoul")
        ELSE IF ~exptBinlogId.ok THEN ErrReply("stoul")
        ELSE IF exptStoreId.value >= KVStoreCount THEN ErrReply("ERR_PARSEOPT")
        ELSE IF ~isOpen[exptStoreId.value] THEN ErrReply("getDb")
        ELSE IF txnFails THEN ErrReply("createTransaction")
        ELSE LET cur == createBinlogCursor(binlog[exptStoreId.value], exptBinlogId.value)
                 st == PullLoop(cur, failAt)
             IN  IF st.err THEN ErrReply("cursor")
                 ELSE PullReply(st.binlogs, exptBinlogId.value)

\* the records a reply carries, decoded back
RECURSIVE RecordsOf(_, _, _)
RecordsOf(bulks, lo, hi) ==
    IF lo > hi THEN <<>>
    ELSE IF lo = hi THEN <<decode(bulks[2 * lo - 1], bulks[2 * lo]).value>>
    ELSE LET mid == (lo + hi) \div 2
         IN  RecordsOf(bulks, lo, mid) \o RecordsOf(bulks, mid + 1, hi)

StoreArgs == {NumStr(s) : s \in 0 .. KVStoreCount} \cup {JunkStr}
PosArgs == {NumStr(p) : p \in 0 .. (MaxTxnId + 1)} \cup {JunkStr}
\* what can fail once the shard is reached: createTransaction, or one of the
\* calls of cursor->next()
NoPullFault == [txnFails |-> FALSE, failAt |-> 0]
PullFaults ==
    {NoPullFault, [txnFails |-> TRUE, failAt |-> 0]}
        \cup {[txnFails |-> FALSE, failAt |-> k] : k \in 1 .. MaxCursorFault}

\* the request gets as far as store->createTransaction()
PullGetsToStore(storeArg, posArg) ==
    /\ stoul(storeArg).ok
    /\ stoul(posArg).ok
    /\ stoul(storeArg).value < KVStoreCount
    /\ isOpen[stoul(storeArg).value]

\* a client sends its first pullbinlogs, with any arguments; this starts its
\* pull session
Pull ==
    /\ pc = "idle"
    /\ sess.pulls = 0
    /\ resp = NoReply
    /\ \E storeArg \in StoreArgs, posArg \in PosArgs :
       \E fault \in (IF PullGetsToStore(storeArg, posArg) THEN PullFaults ELSE {NoPullFault}) :
         LET r == PullRun(storeArg, posArg, fault.txnFails, fault.failAt)
         IN  /\ req' = [cmd |-> "pullbinlogs", store |-> storeArg[2], pos |-> posArg[2],
                        args |-> <<storeArg, posArg>>]
             /\ resp' = r
             /\ sess' = IF r.kind = "array"
                        THEN [store |-> storeArg[2], from |-> posArg[2], next |-> r.pos, pulls |-> 1]
                        ELSE NoSess
             /\ delivered' = IF r.kind = "array"
                             THEN RecordsOf(r.bulks, 1, Len(r.bulks) \div 2)
                             ELSE <<>>
    /\ UNCHANGED <<binlog, kv, isOpen, pc, writeVars, threads, topoVars>>

\* the client of a pull session asks for the position the last reply gave it
PullResume ==
    /\ pc = "idle"
    /\ sess.pulls > 0
    /\ \E fault \in PullFaults :
         LET r == PullRun(NumStr(sess.store), NumStr(sess.next), fault.txnFails, fault.failAt)
         IN  /\ req' = [cmd |-> "pullbinlogs", store |-> sess.store, pos |-> sess.next,
                        args |-> <<NumStr(sess.store), NumStr(sess.next)>>]
             /\ resp' = r
             /\ sess' = IF r.kind = "array"
                        THEN [sess EXCEPT !.next = r.pos, !.pulls = 2]
                        ELSE sess
             /\ delivered' = IF r.kind = "array"
                             THEN delivered \o RecordsOf(r.bulks, 1, Len(r.bulks) \div 2)
                             ELSE delivered
    /\ UNCHANGED <<binlog, kv, isOpen, pc, writeVars, threads, topoVars>>

(***************************************************************************)
(* applybinlogs storeId [k0 v0] [k1 v1] ...                                *)
(***************************************************************************)
\* args[i], with the index of the C++ vector
At(args, i) == args[i + 1]

\* the process dies on a memory fault, nothing is returned
CrashReply == [kind |-> "crash", code |-> "", pos |-> 0, bulks |-> <<>>]

\* std::map<uint64_t, std::list<ReplLog>>: a sequence of entries in
\* increasing order of their key, which is the order an iteration visits
MapFind(m, txnId) == \E j \in 1 .. Len(m) : m[j].txnId = txnId

\* MapInsert that keeps the entries in order of insertion
MapInsert_Arrival(m, txnId) ==
    Append(m, [txnId |-> txnId, logs |-> <<>>])

\* binlogGroup[txnId] = std::list<ReplLog>()
MapInsert(m, txnId) ==
    SelectSeq(m, LAMBDA e : e.txnId < txnId)
        \o <<[txnId |-> txnId, logs |-> <<>>]>>
        \o SelectSeq(m, LAMBDA e : e.txnId > txnId)

\* binlogGroup[txnId].emplace_back(log)
MapEmplaceBack(m, txnId, log) ==
    [j \in 1 .. Len(m) |->
        IF m[j].txnId = txnId THEN [m[j] EXCEPT !.logs = Append(@, log)] ELSE m[j]]

DecodeInit == [group |-> <<>>, decoded |-> <<>>, pastEnd |-> FALSE, status |-> "ERR_OK"]

\* ApplyDecodeStep that skips a pair it cannot decode
ApplyDecodeStep_Skip(st, k, v) ==
    LET logkv == decode(k, v)
    IN  IF ~logkv.ok THEN st
        ELSE LET txnId == logkv.value.txnId
                 found == IF MapFind(st.group, txnId) THEN st.group
                          ELSE MapInsert(st.group, txnId)
             IN  [st EXCEPT !.group = MapEmplaceBack(found, txnId, logkv.value),
                            !.decoded = Append(@, logkv.value)]

\* one iteration of the decoding loop, on the strings k and v
ApplyDecodeStep(st, k, v) ==
    LET logkv == decode(k, v)
    IN  IF ~logkv.ok THEN [st EXCEPT !.status = "decode"]
        ELSE LET txnId == logkv.value.txnId
                 found == IF MapFind(st.group, txnId) THEN st.group
                          ELSE MapInsert(st.group, txnId)
             IN  [st EXCEPT !.group = MapEmplaceBack(found, txnId, logkv.value),
                            !.decoded = Append(@, logkv.value)]

\* for (size_t i = 2; i < args.size(); i+=2).  When args.size() is odd the
\* last iteration reads args[i+1] past the end of the vector, which is
\* undefined: the process crashes, or the read yields the string oob.str
RECURSIVE ApplyDecodeLoop(_, _, _, _)
ApplyDecodeLoop(args, i, st, oob) ==
    IF st.status # "ERR_OK" \/ i >= Len(args) THEN st
    ELSE IF i + 1 >= Len(args)
    THEN IF oob.crash THEN [st EXCEPT !.status = "crash", !.pastEnd = TRUE]
         ELSE ApplyDecodeLoop(args, i + 2,
                  [ApplyDecodeStep(st, At(args, i), oob.str) EXCEPT !.pastEnd = TRUE], oob)
    ELSE ApplyDecodeLoop(args, i + 2, ApplyDecodeStep(st, At(args, i), At(args, i + 1)), oob)

\* ApplyCheckGroup that looks at the first record only
ApplyCheckGroup_StartOnly(logs) ==
    HasFlag(logs[1].flag, REPL_GROUP_START)

\* the two flag tests on a group; FALSE is LOG(FATAL)
ApplyCheckGroup(logs) ==
    /\ HasFlag(logs[1].flag, REPL_GROUP_START)
    /\ HasFlag(logs[Len(logs)].flag, REPL_GROUP_END)

\* for (const auto& logList : binlogGroup)
ApplyValidate(group) == \A j \in 1 .. Len(group) : ApplyCheckGroup(group[j].logs)

\* ApplyReturn that wraps the status as restorebinlog does for setKV
ApplyReturn_Wrapped(s) ==
    IF s = "ERR_OK" THEN fmtOK ELSE ErrReply("ERR_INTERNAL")

\* if (s.ok()) return Command::fmtOK(); else return s;
ApplyReturn(s) ==
    IF s = "ERR_OK" THEN fmtOK ELSE ErrReply(s)

\* ApplyBinlogsCommand::run up to the call of replMgr->applyBinlogs:
\* the reply if it returns before, the grouped records if it gets there
ApplyRun(args, oob) ==
    LET exptStoreId == stoul(At(args, 1))
        early(r) == [invoke |-> FALSE, reply |-> r, store |-> 0, st |-> DecodeInit]
    IN  IF ~exptStoreId.ok THEN early(ErrReply("stoul"))
        ELSE IF exptStoreId.value >= KVStoreCount THEN early(ErrReply("ERR_PARSEOPT"))
        ELSE LET storeId == exptStoreId.value
                 st == ApplyDecodeLoop(args, 2, DecodeInit, oob)
                 out(r) == [invoke |-> FALSE, reply |-> r, store |-> storeId, st |-> st]
             IN  IF st.status = "crash" THEN out(CrashReply)
                 ELSE IF st.status # "ERR_OK" THEN out(ErrReply(st.status))
                 ELSE IF ~ApplyValidate(st.group) THEN out(FatalReply)
                 ELSE IF ~isOpen[storeId] THEN out(ErrReply("getDb"))
                 ELSE [invoke |-> TRUE, reply |-> NoReply, store |-> storeId, st |-> st]

(***************************************************************************)
(* The storage transaction and the replication manager.                    *)
(***************************************************************************)
\* the keys of a shard; an encoded record key or record value of 0 does not
\* decode
StoreKeys == {1}

\* the effect of one record on the content of the shard: SET upserts the
\* target key, DELETE removes it
ReplayOne(data, r) ==
    IF r.op = REPL_OP_SET THEN [data EXCEPT ![r.opKey] = r.opValue]
    ELSE [data EXCEPT ![r.opKey] = 0]

RECURSIVE Replay(_, _)
Replay(data, logs) ==
    IF logs = <<>> THEN data ELSE Replay(ReplayOne(data, Head(logs)), Tail(logs))

\* the record has a known operation and its target key and value decode
CanReplay(r) ==
    /\ r.op \in {REPL_OP_SET, REPL_OP_DEL}
    /\ r.opKey \in StoreKeys
    /\ r.op = REPL_OP_SET => r.opValue # 0

\* the errors a commit can end with
CommitErrors == {"ERR_COMMIT_RETRY", "ERR_INTERNAL"}

\* replMgr->applyBinlogs applies the first pending batch: one local
\* transaction that replays the records of the batch in order and commits.
\* A failure ends the call with its status; the batches committed before stay.
ReplApplyBatch ==
    /\ pc = "applying"
    /\ pending # <<>>
    /\ repl.status = "ERR_OK"
    /\ LET batch == Head(pending)
       IN  IF \E j \in 1 .. Len(batch.logs) : ~CanReplay(batch.logs[j])
           THEN /\ repl' = [repl EXCEPT !.status = "replay"]
                /\ UNCHANGED <<kv, pending>>
           ELSE \E commit \in {"ERR_OK"} \cup CommitErrors :
                    IF commit = "ERR_OK"
                    THEN /\ kv' = [kv EXCEPT ![repl.store] = Replay(@, batch.logs)]
                         /\ repl' = [repl EXCEPT !.applied = Append(@, batch)]
                         /\ pending' = Tail(pending)
                    ELSE /\ repl' = [repl EXCEPT !.status = commit]
                         /\ UNCHANGED <<kv, pending>>
    /\ UNCHANGED <<binlog, isOpen, pc, req, resp, sess, delivered, lock, trace, kv0, threads, topoVars>>

\* replMgr->applyBinlogs has returned: the handler replies and its lock goes
ApplyFinish ==
    /\ pc = "applying"
    /\ pending = <<>> \/ repl.status # "ERR_OK"
    /\ resp' = ApplyReturn(repl.status)
    /\ lock' = NoLock
    /\ pending' = <<>>
    /\ pc' = "done"
    /\ UNCHANGED <<binlog, kv, isOpen, req, sess, delivered, repl, trace, kv0, threads, topoVars>>

(***************************************************************************)
(* The requests a client sends.                                            *)
(***************************************************************************)
NameStr(c) == <<0, c>>
LogKeys == {<<1, t, 0, f>> : t \in TxnIds, f \in {REPL_GROUP_START, REPL_GROUP_END, REPL_GROUP_START + REPL_GROUP_END}}
SetValue == <<2, REPL_OP_SET, 1, 2>>
DelValue == <<2, REPL_OP_DEL, 1, 0>>
WholeKey == <<1, 1, 0, REPL_GROUP_START + REPL_GROUP_END>>
\* a value with no operation, one with a key that does not decode, one with a
\* value that does not decode
BadValues == {<<2, 0, 1, 0>>, <<2, REPL_OP_SET, 0, 2>>, <<2, REPL_OP_SET, 1, 0>>}
Pairs ==
    {<<k, v>> : k \in LogKeys, v \in {SetValue, DelValue}}
        \cup {<<WholeKey, v>> : v \in BadValues}
        \cup {<<WholeKey, JunkStr>>}

RECURSIVE Flatten(_)
Flatten(ps) == IF ps = <<>> THEN <<>> ELSE Head(ps) \o Flatten(Tail(ps))

\* the key/value strings of a request, with or without a last key that has
\* no value
FlatLists(danglings) ==
    UNION {{Flatten(ps) \o d : ps \in [1 .. n -> Pairs],
                               d \in {<<>>} \cup {<<x>> : x \in danglings}}
           : n \in 0 .. ((MaxArgs - 2) \div 2)}

ArgLists(name, danglings) ==
    {<<NameStr(name), storeArg>> \o flat :
        storeArg \in StoreArgs,
        flat \in {f \in FlatLists(danglings) : Len(f) + 2 <= MaxArgs}}

ApplyArgs == ArgLists(1, {JunkStr, <<1, 1, 0, REPL_GROUP_END>>})
\* arity -4: restorebinlog has at least four arguments
RestoreArgs == {a \in ArgLists(2, {JunkStr}) : Len(a) >= 4}

\* what a read past the end of args can do
NoOob == [crash |-> FALSE, str |-> JunkStr]
OobReads == {[crash |-> TRUE, str |-> JunkStr]}
                \cup {[crash |-> FALSE, str |-> g] : g \in {JunkStr, SetValue, DelValue}}

\* a client sends applybinlogs; the handler runs up to the call of
\* replMgr->applyBinlogs, under the shard lock, or to an earlier return
Apply ==
    /\ pc = "idle"
    /\ resp = NoReply
    /\ \E args \in ApplyArgs :
       \E oob \in (IF Len(args) % 2 = 1 THEN OobReads ELSE {NoOob}) :
         LET run == ApplyRun(args, oob)
         IN  /\ req' = [cmd |-> "applybinlogs", store |-> run.store, pos |-> 0, args |-> args]
             /\ trace' = [NoTrace EXCEPT !.decoded = run.st.decoded,
                                          !.locks = IF run.invoke THEN 1 ELSE 0,
                                          !.pastEnd = run.st.pastEnd]
             /\ IF run.invoke
                THEN /\ lock' = [held |-> TRUE, store |-> run.store, mode |-> "IX"]
                     /\ repl' = [invoked |-> 1, store |-> run.store, handed |-> run.st.group,
                                 applied |-> <<>>, status |-> "ERR_OK"]
                     /\ pending' = run.st.group
                     /\ pc' = "applying"
                     /\ resp' = NoReply
                ELSE /\ resp' = run.reply
                     /\ pc' = "done"
                     /\ UNCHANGED <<lock, repl, pending>>
    /\ UNCHANGED <<binlog, kv, isOpen, sess, delivered, kv0, threads, topoVars>>

(***************************************************************************)
(* restorebinlog storeId k1 v1 k2 v2 ...                                   *)
(***************************************************************************)
\* for (size_t i = 2; i < args.size(); i+=2): the records, or the failure
RECURSIVE RestoreDecodeLoop(_, _, _)
RestoreDecodeLoop(args, i, st) ==
    IF st.status # "ERR_OK" \/ i >= Len(args) THEN st
    ELSE LET kvp == decode(At(args, i), At(args, i + 1))
         IN  IF ~kvp.ok THEN [st EXCEPT !.status = "decode"]
             ELSE RestoreDecodeLoop(args, i + 2, [st EXCEPT !.decoded = Append(@, kvp.value)])

\* one iteration of the replay loop that goes on after a setKV or delKV that
\* failed
RestoreReplayOne_IgnoresWriteError(st, r, failWrite) ==
    IF st.status # "ERR_OK" THEN st
    ELSE IF r.opKey \notin StoreKeys THEN [st EXCEPT !.status = "decode"]
    ELSE IF r.op = REPL_OP_SET
    THEN IF r.opValue = 0 THEN [st EXCEPT !.status = "decode"]
         ELSE IF failWrite THEN [st EXCEPT !.writes = @ + 1]
         ELSE [st EXCEPT !.data = [@ EXCEPT ![r.opKey] = r.opValue], !.writes = @ + 1]
    ELSE IF r.op = REPL_OP_DEL
    THEN IF failWrite THEN [st EXCEPT !.writes = @ + 1]
         ELSE [st EXCEPT !.data = [@ EXCEPT ![r.opKey] = 0], !.writes = @ + 1]
    ELSE [st EXCEPT !.status = "ERR_PARSEOPT"]

\* one iteration of the replay loop on record r of the local transaction;
\* failWrite: this setKV or delKV fails
RestoreReplayOne(st, r, failWrite) ==
    IF st.status # "ERR_OK" THEN st
    ELSE IF r.opKey \notin StoreKeys THEN [st EXCEPT !.status = "decode"]
    ELSE IF r.op = REPL_OP_SET
    THEN IF r.opValue = 0 THEN [st EXCEPT !.status = "decode"]
         ELSE IF failWrite THEN [st EXCEPT !.status = "ERR_INTERNAL", !.writes = @ + 1]
         ELSE [st EXCEPT !.data = [@ EXCEPT ![r.opKey] = r.opValue], !.writes = @ + 1]
    ELSE IF r.op = REPL_OP_DEL
    THEN IF failWrite THEN [st EXCEPT !.status = "ERR_INTERNAL", !.writes = @ + 1]
         ELSE [st EXCEPT !.data = [@ EXCEPT ![r.opKey] = 0], !.writes = @ + 1]
    ELSE [st EXCEPT !.status = "ERR_PARSEOPT"]

\* for (const auto& kv : logs), on logs[j..]
RECURSIVE RestoreReplay(_, _, _, _)
RestoreReplay(logs, j, st, failAt) ==
    IF j > Len(logs) THEN st
    ELSE RestoreReplay(logs, j + 1, RestoreReplayOne(st, logs[j], st.writes + 1 = failAt), failAt)

RestoreFaults ==
    {NoFault, [NoFault EXCEPT !.createTransaction = TRUE]}
        \cup {[NoFault EXCEPT !.writeAt = k] : k \in 1 .. ((MaxArgs - 2) \div 2)}
        \cup {[NoFault EXCEPT !.commit = e] : e \in CommitErrors}

\* if (kv.getReplLogKey().getTxnId() != txnId): some record is of another
\* transaction than the first
SameTxnId_Unchecked(logs) == TRUE

SameTxnId(logs) ==
    \A j \in 1 .. Len(logs) : logs[j].txnId = logs[1].txnId

\* RestoreBinlogCommand::run: the reply, the content of the shard after it,
\* and how far the handler went: locks taken by getDb, transactions created,
\* setKV and delKV calls issued, commits made
RestoreRun(args, fault) ==
    LET out(r, store, logs, locks, txns, writes, commits, data) ==
            [reply |-> r, store |-> store, decoded |-> logs, locks |-> locks,
             txns |-> txns, writes |-> writes, commits |-> commits, data |-> data]
    IN  IF Len(args) % 2 # 0 THEN out(ErrReply("ERR_PARSEOPT"), 0, <<>>, 0, 0, 0, 0, kv[0])
        ELSE LET exptStoreId == stoul(At(args, 1))
             IN  IF ~exptStoreId.ok THEN out(ErrReply("stoul"), 0, <<>>, 0, 0, 0, 0, kv[0])
                 ELSE IF exptStoreId.value >= KVStoreCount
                 THEN out(ErrReply("ERR_PARSEOPT"), 0, <<>>, 0, 0, 0, 0, kv[0])
                 ELSE LET storeId == exptStoreId.value
                          dec == RestoreDecodeLoop(args, 2, DecodeInit)
                          logs == dec.decoded
                          keep(r, locks, txns, writes, commits) ==
                              out(r, storeId, logs, locks, txns, writes, commits, kv[storeId])
                      IN  IF dec.status # "ERR_OK" THEN keep(ErrReply(dec.status), 0, 0, 0, 0)
                          ELSE IF ~SameTxnId(logs) THEN keep(ErrReply("ERR_PARSEOPT"), 0, 0, 0, 0)
                          ELSE IF ~isOpen[storeId] THEN keep(ErrReply("getDb"), 0, 0, 0, 0)
                          ELSE IF fault.createTransaction
                          THEN keep(ErrReply("createTransaction"), 1, 0, 0, 0)
                          ELSE LET st == RestoreReplay(logs, 1,
                                            [data |-> kv[storeId], status |-> "ERR_OK", writes |-> 0],
                                            fault.writeAt)
                               IN  IF st.status # "ERR_OK"
                                   THEN keep(ErrReply(st.status), 1, 1, st.writes, 0)
                                   ELSE IF fault.commit = "ERR_OK"
                                   THEN out(fmtOK, storeId, logs, 1, 1, st.writes, 1, st.data)
                                   ELSE keep(ErrReply(fault.commit), 1, 1, st.writes, 1)

\* the request passes every check made before the shard is locked
RestoreGetsToLock(args) ==
    RestoreRun(args, NoFault).locks = 1

\* a client sends restorebinlog; the handler runs to its return
Restore ==
    /\ pc = "idle"
    /\ resp = NoReply
    /\ \E args \in RestoreArgs :
       \E fault \in (IF RestoreGetsToLock(args) THEN RestoreFaults ELSE {NoFault}) :
         LET run == RestoreRun(args, fault)
         IN  /\ req' = [cmd |-> "restorebinlog", store |-> run.store, pos |-> 0, args |-> args]
             /\ resp' = run.reply
             /\ kv' = [kv EXCEPT ![run.store] = run.data]
             /\ trace' = [decoded |-> run.decoded, locks |-> run.locks, pastEnd |-> FALSE,
                          txns |-> run.txns, writes |-> run.writes,
                          commits |-> run.commits, fault |-> fault]
    /\ pc' = "done"
    /\ UNCHANGED <<binlog, isOpen, sess, delivered, lock, pending, repl, kv0, threads, topoVars>>

InitWrite ==
    /\ binlog = [s \in Stores |-> <<>>]
    /\ \E v \in {0, 1}, open \in BOOLEAN :
         /\ kv = [s \in Stores |-> [k \in StoreKeys |-> v]]
         /\ isOpen = [s \in Stores |-> open]
    /\ pc = "idle"
    /\ req = NoReq
    /\ resp = NoReply
    /\ sess = NoSess
    /\ delivered = <<>>
    /\ lock = NoLock
    /\ pending = <<>>
    /\ repl = NoRepl
    /\ trace = NoTrace
    /\ kv0 = kv
    /\ threads = [t \in Threads |-> NoThread]
    /\ replSource = [s \in Stores |-> Detached]
    /\ topo = NoTopo
    /\ prev = NoPrev

NextWrite == Apply \/ ReplApplyBatch \/ ApplyFinish \/ Restore

SpecWrite == InitWrite /\ [][NextWrite]_vars

(***************************************************************************)
(* The binlogs a shard can hold: the records of one transaction are        *)
(* contiguous, transactions are in increasing order of their id, the first *)
(* record of a transaction carries GROUP_START and the last GROUP_END.     *)
(***************************************************************************)
TxnSizes == {1, kPullSoftCap, kPullSoftCap + 1}

RECURSIVE SumTo(_, _)
SumTo(sizes, j) == IF j = 0 THEN 0 ELSE sizes[j] + SumTo(sizes, j - 1)

\* the binlog of the transactions ids[1] < ids[2] < ... of the given sizes
BuildLog(ids, sizes) ==
    [n \in 1 .. SumTo(sizes, Len(sizes)) |->
        LET j == CHOOSE j \in 1 .. Len(sizes) : SumTo(sizes, j - 1) < n /\ n <= SumTo(sizes, j)
            i == n - SumTo(sizes, j - 1)
        IN  [txnId |-> ids[j], localId |-> i - 1,
             flag |-> (IF i = 1 THEN REPL_GROUP_START ELSE 0)
                      + (IF i = sizes[j] THEN REPL_GROUP_END ELSE 0),
             op |-> REPL_OP_SET, opKey |-> 1, opValue |-> 1]]

Increasing(ids) == \A j \in 1 .. (Len(ids) - 1) : ids[j] < ids[j + 1]

Binlogs ==
    UNION {{BuildLog(ids, sizes) : ids \in {q \in [1 .. n -> TxnIds] : Increasing(q)},
                                   sizes \in [1 .. n -> TxnSizes]} : n \in 0 .. MaxTxns}

EmptyKV == [s \in Stores |-> [k \in StoreKeys |-> 0]]

InitPull ==
    /\ \E s \in Stores, log \in Binlogs :
         /\ binlog = [t \in Stores |-> IF t = s THEN log ELSE <<>>]
         /\ isOpen = [t \in Stores |-> t # (s + 1) % KVStoreCount]
    /\ kv = EmptyKV
    /\ pc = "idle"
    /\ req = NoReq
    /\ resp = NoReply
    /\ sess = NoSess
    /\ delivered = <<>>
    /\ lock = NoLock
    /\ pending = <<>>
    /\ repl = NoRepl
    /\ trace = NoTrace
    /\ kv0 = kv
    /\ threads = [t \in Threads |-> NoThread]
    /\ replSource = [s \in Stores |-> Detached]
    /\ topo = NoTopo
    /\ prev = NoPrev

NextPull == Pull \/ PullResume

SpecPull == InitPull /\ [][NextPull]_vars
(***************************************************************************)
(* Shard locks.  The request-handling threads serve requests at the same   *)
(* time; a handler asks getDb for the lock of a shard in the mode of its   *)
(* command and holds it until the handle getDb returned goes out of scope: *)
(* the return of a handler for one shard, the end of the loop body of a    *)
(* handler that goes through all shards.                                   *)
(***************************************************************************)
\* the mode a handler passes to getDb
LockModeOf_SlaveofIntent(op) ==
    IF op \in {"pullbinlogs", "backup"} THEN "IS" ELSE "IX"

LockModeOf(op) ==
    IF op \in {"pullbinlogs", "backup"} THEN "IS"
    ELSE IF op \in {"applybinlogs", "restorebinlog"} THEN "IX"
    ELSE "X"

\* mgl: two threads can hold the lock of one shard in modes a and b
Compatible(a, b) == a # "X" /\ b # "X"

\* the requests for one shard, and those that go through all shards
ThreadRequests ==
    {[op |-> op, sweep |-> FALSE, store |-> s, at |-> "getDb", held |-> {}, ahead |-> {}] :
        op \in {"pullbinlogs", "applybinlogs", "restorebinlog", "slaveof"}, s \in Stores}
    \cup {[op |-> op, sweep |-> TRUE, store |-> 0, at |-> "getDb", held |-> {}, ahead |-> {}] :
            op \in {"slaveof", "backup"}}

lockFrame == <<binlog, kv, isOpen, pc, req, resp, sess, delivered, writeVars, topoVars>>

\* mgl: the threads that wait for the lock of shard s; the lock is granted in
\* the order of the requests
Waiting(s) == {u \in Threads : threads[u].at = "getDb" /\ threads[u].store = s}

\* thread u waits no more: it is ahead of no thread
Dequeue(u, th) == [v \in Threads |-> IF v = u THEN th[v] ELSE [th[v] EXCEPT !.ahead = @ \ {u}]]

\* thread t takes a request and gets to its call of getDb
ThreadStart(t) ==
    /\ threads[t].at = "idle"
    /\ \E r \in ThreadRequests :
         threads' = [threads EXCEPT ![t] = [r EXCEPT !.ahead = Waiting(r.store)]]
    /\ UNCHANGED lockFrame

\* getDb returns with the lock, once no other thread holds the lock of the
\* shard in a mode that excludes the mode asked for and no thread that asked
\* before still waits
GetDb(t) ==
    /\ threads[t].at = "getDb"
    /\ threads[t].sweep \/ isOpen[threads[t].store]
    /\ threads[t].ahead = {}
    /\ \A u \in Threads \ {t} :
           threads[t].store \in threads[u].held
               => Compatible(LockModeOf(threads[u].op), LockModeOf(threads[t].op))
    /\ threads' = Dequeue(t, [threads EXCEPT ![t].at = "locked",
                                             ![t].held = @ \cup {threads[t].store}])
    /\ UNCHANGED lockFrame

\* getDb for one shard fails on a shard that is not open: the handler returns
GetDbFails(t) ==
    /\ threads[t].at = "getDb"
    /\ ~threads[t].sweep
    /\ ~isOpen[threads[t].store]
    /\ threads' = Dequeue(t, [threads EXCEPT ![t] = NoThread])
    /\ UNCHANGED lockFrame

\* the end of the loop body: expdb, declared in the body, is destroyed and
\* the lock of the shard is released
ScopeExit_KeepsHandle(held, store) == held

ScopeExit(held, store) == held \ {store}

\* the handle goes out of scope: the handler returns, which releases what it
\* holds, or its loop goes on to the next shard
Unlock(t) ==
    /\ threads[t].at = "locked"
    /\ \E stop \in BOOLEAN :
         threads' = [threads EXCEPT ![t] =
                        IF @.sweep /\ ~stop /\ @.store + 1 < KVStoreCount
                        THEN [@ EXCEPT !.store = @ + 1, !.at = "getDb",
                                       !.held = ScopeExit(@, threads[t].store),
                                       !.ahead = Waiting(threads[t].store + 1)]
                        ELSE NoThread]
    /\ UNCHANGED lockFrame

InitLock ==
    /\ binlog = [s \in Stores |-> <<>>]
    /\ kv = EmptyKV
    /\ \E open \in BOOLEAN : isOpen = [s \in Stores |-> s < KVStoreCount - 1 \/ open]
    /\ pc = "idle"
    /\ req = NoReq
    /\ resp = NoReply
    /\ sess = NoSess
    /\ delivered = <<>>
    /\ lock = NoLock
    /\ pending = <<>>
    /\ repl = NoRepl
    /\ trace = NoTrace
    /\ kv0 = kv
    /\ threads = [t \in Threads |-> NoThread]
    /\ replSource = [s \in Stores |-> Detached]
    /\ topo = NoTopo
    /\ prev = NoPrev

NextLock == \E t \in Threads : ThreadStart(t) \/ GetDb(t) \/ GetDbFails(t) \/ Unlock(t)

SpecLock == InitLock /\ [][NextLock]_vars

\* every thread runs, the calls made under a lock return and the lock manager
\* grants a lock that can be granted
SpecLockFair ==
    /\ SpecLock
    /\ \A t \in Threads :
           WF_vars(GetDb(t)) /\ WF_vars(GetDbFails(t)) /\ WF_vars(Unlock(t))

(***************************************************************************)
(* slaveof and backup.                                                     *)
(***************************************************************************)
\* SegmentMgr::getDb(sess, storeId, mode, canOpenStoreNoneDB): without the
\* last argument a shard that is not open is an error
getDbOk(storeId, tolerate) == tolerate \/ isOpen[storeId]

\* ReplManager::changeReplSource(storeId, ip, port, sourceStoreId) on the
\* table of sources
changeReplSource(table, storeId, source) == [table EXCEPT ![storeId] = source]

\* what can fail in a handler: the getDb or the changeReplSource (backup: the
\* store->backup) of shard at
NoTopoFault == [at |-> 0, what |-> "none"]
TopoFaults ==
    {NoTopoFault}
        \cup {[at |-> i, what |-> w] : i \in Stores, w \in {"getDb", "changeReplSource", "backup"}}

\* the last argument of the getDb of a loop over all shards
SweepTolerates_Not == FALSE

SweepTolerates == TRUE

\* changeReplSource(i, ip, port, i)
SweepSource_ToShardZero(ip, port, i) == [host |-> ip, port |-> port, sourceStoreId |-> 0]

SweepSource(ip, port, i) == [host |-> ip, port |-> port, sourceStoreId |-> i]

\* changeReplSource(storeId, "", 0, 0)
NoOneSource_KeepsHost(table, storeId) == [table[storeId] EXCEPT !.port = 0, !.sourceStoreId = 0]

NoOneSource(table, storeId) == Detached

\* the state of a handler: the table of sources, the calls of
\* changeReplSource with the lock held on the shard of the call, the locks
\* getDb gave, the shards backed up, the reply once the handler has returned
RunInit == [src |-> replSource, calls |-> <<>>, locks |-> <<>>, backups |-> <<>>, reply |-> NoReply]

\* one shard of a slaveof for all shards that goes on to the next shard when
\* changeReplSource fails
SlaveofSweepStep_GoesOn(st, i, source, fault) ==
    IF st.reply # NoReply THEN st
    ELSE IF fault = [at |-> i, what |-> "getDb"] \/ ~getDbOk(i, SweepTolerates)
    THEN [st EXCEPT !.reply = ErrReply("getDb")]
    ELSE LET locked == [st EXCEPT !.locks = Append(@, [store |-> i, mode |-> LockModeOf("slaveof")])]
             call == [store |-> i, source |-> source, held |-> LockModeOf("slaveof")]
         IN  IF ~isOpen[i] THEN locked
             ELSE IF fault = [at |-> i, what |-> "changeReplSource"]
             THEN [locked EXCEPT !.calls = Append(@, call)]
             ELSE [locked EXCEPT !.calls = Append(@, call),
                                 !.src = changeReplSource(@, i, source)]

\* the body of for (uint32_t i = 0; i < svr->getKVStoreCount(); ++i) of
\* slaveof, for shard i
SlaveofSweepStep(st, i, source, fault) ==
    IF st.reply # NoReply THEN st
    ELSE IF fault = [at |-> i, what |-> "getDb"] \/ ~getDbOk(i, SweepTolerates)
    THEN [st EXCEPT !.reply = ErrReply("getDb")]
    ELSE LET locked == [st EXCEPT !.locks = Append(@, [store |-> i, mode |-> LockModeOf("slaveof")])]
             call == [store |-> i, source |-> source, held |-> LockModeOf("slaveof")]
         IN  IF ~isOpen[i] THEN locked
             ELSE IF fault = [at |-> i, what |-> "changeReplSource"]
             THEN [locked EXCEPT !.calls = Append(@, call),
                                 !.reply = ErrReply("changeReplSource")]
             ELSE [locked EXCEPT !.calls = Append(@, call),
                                 !.src = changeReplSource(@, i, source)]

\* the loop of runSlaveofSomeOne (attach) and of runSlaveofNoOne, from shard i
RECURSIVE SlaveofSweep(_, _, _, _, _, _)
SlaveofSweep(st, i, attach, ip, port, fault) ==
    IF i >= KVStoreCount
    THEN IF st.reply = NoReply THEN [st EXCEPT !.reply = fmtOK] ELSE st
    ELSE SlaveofSweep(SlaveofSweepStep(st, i,
                          IF attach THEN SweepSource(ip, port, i) ELSE NoOneSource(st.src, i),
                          fault),
                      i + 1, attach, ip, port, fault)

\* slaveof for one shard: getDb(sess, storeId, LOCK_X), changeReplSource
SlaveofOne(st, storeId, source, fault) ==
    IF fault = [at |-> storeId, what |-> "getDb"] \/ ~getDbOk(storeId, FALSE)
    THEN [st EXCEPT !.reply = ErrReply("getDb")]
    ELSE LET locked == [st EXCEPT !.locks = Append(@, [store |-> storeId, mode |-> LockModeOf("slaveof")])]
             call == [store |-> storeId, source |-> source, held |-> LockModeOf("slaveof")]
         IN  IF fault = [at |-> storeId, what |-> "changeReplSource"]
             THEN [locked EXCEPT !.calls = Append(@, call),
                                 !.reply = ErrReply("changeReplSource")]
             ELSE [locked EXCEPT !.calls = Append(@, call),
                                 !.src = changeReplSource(@, storeId, source),
                                 !.reply = fmtOK]

\* storeId >= svr->getKVStoreCount() || sourceStoreId >= svr->getKVStoreCount()
IdsInRange_TargetOnly(storeId, sourceStoreId) == storeId < KVStoreCount

IdsInRange(storeId, sourceStoreId) ==
    storeId < KVStoreCount /\ sourceStoreId < KVStoreCount

runSlaveofSomeOne(args, fault) ==
    LET ip == At(args, 1)
        port == std_stoul(At(args, 2))
        err == [RunInit EXCEPT !.reply = ErrReply("ERR_PARSEPKT")]
    IN  IF ~port.ok THEN err
        ELSE IF Len(args) = 3 THEN SlaveofSweep(RunInit, 0, TRUE, ip, port.value, fault)
        ELSE IF Len(args) = 5
        THEN LET storeId == std_stoul(At(args, 3))
                 sourceStoreId == std_stoul(At(args, 4))
             IN  IF ~storeId.ok \/ ~sourceStoreId.ok THEN err
                 ELSE IF ~IdsInRange(storeId.value, sourceStoreId.value) THEN err
                 ELSE SlaveofOne(RunInit, storeId.value,
                                 [host |-> ip, port |-> port.value,
                                  sourceStoreId |-> sourceStoreId.value], fault)
        ELSE err

runSlaveofNoOne(args, fault) ==
    LET err == [RunInit EXCEPT !.reply = ErrReply("ERR_PARSEPKT")]
    IN  IF Len(args) = 4
        THEN LET storeId == std_stoul(At(args, 3))
             IN  IF ~storeId.ok THEN err
                 ELSE IF storeId.value >= KVStoreCount THEN err
                 ELSE SlaveofOne(RunInit, storeId.value, NoOneSource(replSource, storeId.value), fault)
        ELSE SlaveofSweep(RunInit, 0, FALSE, EmptyStr, 0, fault)

\* SlaveofCommand::run
SlaveofRun(args, fault) ==
    IF toLower(At(args, 1)) = NoWord /\ toLower(At(args, 2)) = OneWord
    THEN runSlaveofNoOne(args, fault)
    ELSE runSlaveofSomeOne(args, fault)

\* one shard of the loop of backup
BackupStep(st, i, fault) ==
    IF st.reply # NoReply THEN st
    ELSE IF fault = [at |-> i, what |-> "getDb"] \/ ~getDbOk(i, SweepTolerates)
    THEN [st EXCEPT !.reply = ErrReply("getDb")]
    ELSE LET locked == [st EXCEPT !.locks = Append(@, [store |-> i, mode |-> LockModeOf("backup")])]
         IN  IF ~isOpen[i] THEN locked
             ELSE IF fault = [at |-> i, what |-> "backup"]
             THEN [locked EXCEPT !.reply = ErrReply("backup")]
             ELSE [locked EXCEPT !.backups = Append(@, i)]

\* return {ErrorCodes::ERR_OK, ""}
BackupDone == [kind |-> "ok", code |-> "ERR_OK", pos |-> 0, bulks |-> <<>>]

\* BackupCommand::run, from shard i
RECURSIVE BackupRun(_, _, _)
BackupRun(st, i, fault) ==
    IF i >= KVStoreCount
    THEN IF st.reply = NoReply THEN [st EXCEPT !.reply = BackupDone] ELSE st
    ELSE BackupRun(BackupStep(st, i, fault), i + 1, fault)

\* the requests: slaveof has at least three arguments (arity -3, and the
\* INVARIANT of run), backup has two
PortStrs == {NumStr(1), JunkStr}
IdStrs == StoreArgs \cup {PrefixStr(0)}
SlaveofArgs ==
    LET name == NameStr(3)
    IN  {<<name, ip, port>> : ip \in {HostB, NoWord}, port \in PortStrs}
        \cup {<<name, HostB, NumStr(1), NumStr(0)>>}
        \cup {<<name, HostB, NumStr(1), id, src>> : id \in IdStrs, src \in IdStrs}
        \cup {<<name, HostB, JunkStr, NumStr(0), NumStr(0)>>}
        \cup {<<name, HostB, NumStr(1), NumStr(0), NumStr(0), JunkStr>>}
        \cup {<<name, NoWord, OneWord>>, <<name, NoUpper, OneUpper>>}
        \cup {<<name, NoWord, OneWord, id>> : id \in IdStrs}
        \cup {<<name, NoUpper, OneWord, NumStr(0)>>}
        \cup {<<name, NoWord, OneWord, NumStr(0), NumStr(0)>>}
        \cup {<<name, NoWord, OneWord, NumStr(0), NumStr(0), JunkStr>>}
BackupArgs == {<<NameStr(4), HostA>>}

\* the faults that strike the request
SlaveofFaults(args) ==
    {NoTopoFault} \cup {f \in TopoFaults : SlaveofRun(args, f) # SlaveofRun(args, NoTopoFault)}
BackupFaults ==
    {NoTopoFault} \cup {f \in TopoFaults : BackupRun(RunInit, 0, f) # BackupRun(RunInit, 0, NoTopoFault)}

\* a client sends slaveof, and may send another once it has the reply; the
\* handler runs to its return
Slaveof ==
    /\ pc = "idle"
    /\ resp = NoReply \/ (req.cmd = "slaveof" /\ prev = NoPrev)
    /\ \E args \in SlaveofArgs :
       \E fault \in SlaveofFaults(args) :
         LET run == SlaveofRun(args, fault)
         IN  /\ req' = [cmd |-> "slaveof", store |-> 0, pos |-> 0, args |-> args]
             /\ resp' = run.reply
             /\ replSource' = run.src
             /\ topo' = [calls |-> run.calls, locks |-> run.locks, backups |-> <<>>,
                         before |-> replSource, fault |-> fault]
    /\ prev' = IF req.cmd = "slaveof"
               THEN [cmd |-> "slaveof", args |-> req.args, reply |-> resp, before |-> topo.before]
               ELSE NoPrev
    /\ UNCHANGED <<binlog, kv, isOpen, pc, sess, delivered, writeVars, threads>>

\* a client sends backup; the handler runs to its return
Backup ==
    /\ pc = "idle"
    /\ resp = NoReply
    /\ \E args \in BackupArgs :
       \E fault \in BackupFaults :
         LET run == BackupRun(RunInit, 0, fault)
         IN  /\ req' = [cmd |-> "backup", store |-> 0, pos |-> 0, args |-> args]
             /\ resp' = run.reply
             /\ replSource' = run.src
             /\ topo' = [calls |-> run.calls, locks |-> run.locks, backups |-> run.backups,
                         before |-> replSource, fault |-> fault]
    /\ pc' = "done"
    /\ UNCHANGED <<binlog, kv, isOpen, sess, delivered, writeVars, threads, prev>>

\* a shard whose source was set before keeps it when it is closed
InitTopo ==
    /\ binlog = [s \in Stores |-> <<>>]
    /\ kv = EmptyKV
    /\ isOpen \in [Stores -> BOOLEAN]
    /\ pc = "idle"
    /\ req = NoReq
    /\ resp = NoReply
    /\ sess = NoSess
    /\ delivered = <<>>
    /\ lock = NoLock
    /\ pending = <<>>
    /\ repl = NoRepl
    /\ trace = NoTrace
    /\ kv0 = kv
    /\ threads = [t \in Threads |-> NoThread]
    /\ \E attached \in BOOLEAN :
         replSource = [s \in Stores |-> IF attached THEN SweepSource(HostA, 1, s) ELSE Detached]
    /\ topo = [NoTopo EXCEPT !.before = replSource]
    /\ prev = NoPrev

NextTopo == Slaveof \/ Backup

SpecTopo == InitTopo /\ [][NextTopo]_vars

(***************************************************************************)
(* A client and a server whose shards hold one committed transaction: one  *)
(* shard is not open.  The client sends a request of any command.          *)
(***************************************************************************)
Init ==
    /\ binlog = [s \in Stores |-> BuildLog(<<1>>, <<1>>)]
    /\ kv = [s \in Stores |-> [k \in StoreKeys |-> 1]]
    /\ \E c \in Stores : isOpen = [s \in Stores |-> s # c]
    /\ pc = "idle"
    /\ req = NoReq
    /\ resp = NoReply
    /\ sess = NoSess
    /\ delivered = <<>>
    /\ lock = NoLock
    /\ pending = <<>>
    /\ repl = NoRepl
    /\ trace = NoTrace
    /\ kv0 = kv
    /\ threads = [t \in Threads |-> NoThread]
    /\ replSource = [s \in Stores |-> SweepSource(HostA, 1, s)]
    /\ topo = [NoTopo EXCEPT !.before = replSource]
    /\ prev = NoPrev

Next ==
    \/ Pull \/ PullResume
    \/ Apply \/ ReplApplyBatch \/ ApplyFinish
    \/ Restore
    \/ Slaveof
    \/ Backup

Spec == Init /\ [][Next]_vars

(***************************************************************************)
(* Properties of pullbinlogs.                                              *)
(***************************************************************************)
\* the last request was a pullbinlogs that returned a record list
PullReplied == req.cmd = "pullbinlogs" /\ resp.kind = "array"
\* what a cursor opened at the requested position yields when drained
Drained == createBinlogCursor(binlog[req.store], req.pos)
\* the records of the reply
Got == RecordsOf(resp.bulks, 1, Len(resp.bulks) \div 2)
OfTxn(recs, t) == SelectSeq(recs, LAMBDA r : r.txnId = t)

\* C1: if any record of a transaction is in the returned record list, all the
\* records a drained cursor yields for that transaction are in it: a reply
\* never splits a transaction.
C1_PullNeverSplitsTxn ==
    PullReplied =>
        LET cur == Drained
            got == Got
        IN  \A t \in TxnIds :
                OfTxn(got, t) # <<>> => OfTxn(got, t) = OfTxn(cur, t)

\* a reply that was cut at the soft cap and whose last transaction has
\* several records
C1_Witness ==
    /\ PullReplied
    /\ Len(resp.bulks) \div 2 < Len(Drained)
    /\ LET got == Got IN Len(OfTxn(got, got[Len(got)].txnId)) > 1

\* C2: the returned list is the shortest prefix of the cursor's sequence that
\* has at least 1000 records and ends where the transaction id changes, or
\* the whole sequence when there is no such prefix.
C2_PullShortestAlignedPrefix ==
    PullReplied =>
        LET cur == Drained
            got == Got
            n == Len(got)
        IN  /\ n <= Len(cur)
            /\ got = SubSeq(cur, 1, n)
            /\ n < Len(cur) => (n >= 1000 /\ cur[n].txnId # cur[n + 1].txnId)
            /\ \A m \in 1000 .. (n - 1) : cur[m].txnId = cur[m + 1].txnId
            /\ Len(cur) >= 1000 => n >= 1000

\* a reply of more than 1000 records that still leaves records in the cursor
C2_Witness ==
    /\ PullReplied
    /\ Len(resp.bulks) \div 2 > 1000
    /\ resp.bulks[1][2] = resp.bulks[Len(resp.bulks) - 1][2]
    /\ Len(resp.bulks) \div 2 < Len(Drained)

\* C3: a non-empty reply carries the transaction id of its last record plus
\* one as next position, and its key/value pairs are the cursor's records in
\* cursor order, each once.
C3_PullReplyInOrder ==
    (PullReplied /\ resp.bulks # <<>>) =>
        LET cur == Drained
            n == Len(resp.bulks) \div 2
        IN  /\ Len(resp.bulks) = 2 * n
            /\ n <= Len(cur)
            /\ \A i \in 1 .. n :
                   /\ resp.bulks[2 * i - 1] = encode(cur[i]).first
                   /\ resp.bulks[2 * i] = encode(cur[i]).second
            /\ resp.pos = cur[n].txnId + 1

\* a reply that carries records of two transactions
C3_Witness ==
    /\ PullReplied
    /\ resp.bulks # <<>>
    /\ resp.bulks[1][2] # resp.bulks[Len(resp.bulks) - 1][2]

\* the transaction id of the last committed record of the requested shard
LastCommitted == binlog[req.store][Len(binlog[req.store])].txnId

\* C4 as stated: a pull at a position equal to or beyond the last committed
\* record returns the position back with an empty record list.
C4_AsStated ==
    (PullReplied /\ binlog[req.store] # <<>> /\ req.pos >= LastCommitted) =>
        (resp.pos = req.pos /\ resp.bulks = <<>>)

\* C4 amended: a pull at a position beyond the last committed record (any
\* position when the log is empty) returns the position back with an empty
\* record list, and so does every repetition of it.
C4_PullCaughtUp ==
    /\ [](  (PullReplied /\ (binlog[req.store] = <<>> \/ req.pos > LastCommitted))
            => (resp.pos = req.pos /\ resp.bulks = <<>>) )
    /\ [][ (/\ PullReplied
            /\ binlog[req.store] = <<>> \/ req.pos > LastCommitted
            /\ req' = req
            /\ resp'.kind = "array")
           => resp' = resp ]_vars

\* a caught-up pull has been repeated on a log that is not empty
C4_Witness ==
    /\ PullReplied
    /\ binlog[req.store] # <<>>
    /\ req.pos > LastCommitted
    /\ sess.pulls = 2

\* C5: in a pull session the positions do not decrease, what has been
\* delivered is exactly the records from the first position up to the next
\* position, in log order, and when a reply is empty everything from the
\* first position on has been delivered.
C5_PullSessionExactlyOnce ==
    (sess.pulls > 0) =>
        LET log == binlog[sess.store]
        IN  /\ sess.next >= sess.from
            /\ PullReplied => resp.pos >= req.pos
            /\ delivered = SelectSeq(log, LAMBDA r : sess.from <= r.txnId /\ r.txnId < sess.next)
            /\ (PullReplied /\ resp.bulks = <<>>) =>
                   delivered = SelectSeq(log, LAMBDA r : sess.from <= r.txnId)

\* the second pull of a session has delivered what the first, cut at the
\* soft cap, had left
C5_Witness ==
    /\ sess.pulls = 2
    /\ PullReplied
    /\ resp.bulks # <<>>
    /\ Len(delivered) - Len(resp.bulks) \div 2 >= 1000
    /\ delivered = SelectSeq(binlog[sess.store], LAMBDA r : sess.from <= r.txnId)
(***************************************************************************)
(* Properties of applybinlogs and restorebinlog.                           *)
(***************************************************************************)
ApplyCalled == req.cmd = "applybinlogs"

\* some transaction group of the records recs, in arrival order, has a first
\* record without GROUP_START or a last record without GROUP_END
BadFraming(recs) ==
    \E t \in TxnIds :
        LET g == OfTxn(recs, t)
        IN  /\ g # <<>>
            /\ \/ ~HasFlag(g[1].flag, REPL_GROUP_START)
               \/ ~HasFlag(g[Len(g)].flag, REPL_GROUP_END)

\* C6: when the records an applybinlogs call decodes contain a transaction
\* group whose first record lacks GROUP_START or whose last record lacks
\* GROUP_END, the call ends in a fault or an error, replMgr->applyBinlogs is
\* not invoked, the shard lock is not taken and the storage is as it was.
C6_BadFramingNeverApplied ==
    (ApplyCalled /\ BadFraming(trace.decoded)) =>
        /\ resp.kind \in {"fatal", "error", "crash"}
        /\ repl.invoked = 0
        /\ trace.locks = 0
        /\ lock = NoLock
        /\ kv = kv0

\* the call was aborted on a request that also holds a well-framed group
C6_Witness ==
    /\ ApplyCalled
    /\ resp = FatalReply
    /\ \E t \in TxnIds : OfTxn(trace.decoded, t) # <<>> /\ ~BadFraming(OfTxn(trace.decoded, t))

\* where the first record of transaction t is among recs
FirstOf(recs, t) == CHOOSE i \in 1 .. Len(recs) :
    recs[i].txnId = t /\ \A j \in 1 .. (i - 1) : recs[j].txnId # t

\* C7 as stated: the batches are handed over and committed in the order in
\* which their first records arrived, whatever their transaction ids.
C7_AsStated ==
    (ApplyCalled /\ repl.invoked = 1) =>
        \A i, j \in 1 .. Len(repl.handed) :
            i < j => FirstOf(trace.decoded, repl.handed[i].txnId)
                        < FirstOf(trace.decoded, repl.handed[j].txnId)

\* C7 amended: the batches are handed over, and committed, in increasing
\* order of their transaction id; every transaction of the input is one
\* batch and the records of a batch keep their arrival order.
C7_ApplyInTxnIdOrder ==
    (ApplyCalled /\ repl.invoked = 1) =>
        /\ \A i, j \in 1 .. Len(repl.handed) :
               i < j => repl.handed[i].txnId < repl.handed[j].txnId
        /\ \A t \in TxnIds :
               OfTxn(trace.decoded, t) # <<>> =>
                   \E i \in 1 .. Len(repl.handed) : repl.handed[i].txnId = t
        /\ \A i \in 1 .. Len(repl.handed) :
               repl.handed[i].logs = OfTxn(trace.decoded, repl.handed[i].txnId)
        /\ Len(repl.applied) <= Len(repl.handed)
        /\ repl.applied = SubSeq(repl.handed, 1, Len(repl.applied))

\* two batches were committed whose records arrived in decreasing order of
\* transaction id
C7_Witness ==
    /\ ApplyCalled
    /\ Len(repl.applied) = 2
    /\ trace.decoded[1].txnId > trace.decoded[2].txnId

RECURSIVE LogsOf(_)
LogsOf(batches) == IF batches = <<>> THEN <<>> ELSE Head(batches).logs \o LogsOf(Tail(batches))

\* C8: at every moment of an applybinlogs call the storage is what the
\* batches committed so far make of it, each of them whole; when a batch
\* fails the batches before it stay committed, none of its operations is
\* visible and the caller gets the status of the failure unchanged; when none
\* fails all batches are committed and the caller gets OK.
C8_ApplyAtomicPerTxn ==
    (ApplyCalled /\ repl.invoked = 1) =>
        /\ kv = [kv0 EXCEPT ![repl.store] = Replay(@, LogsOf(repl.applied))]
        /\ repl.applied = SubSeq(repl.handed, 1, Len(repl.applied))
        /\ pc = "done" =>
               \/ /\ resp = fmtOK
                  /\ repl.status = "ERR_OK"
                  /\ repl.applied = repl.handed
               \/ /\ resp = ErrReply(repl.status)
                  /\ repl.status # "ERR_OK"
                  /\ Len(repl.applied) < Len(repl.handed)

\* the second of two batches failed to commit after the first had changed
\* the storage
C8_Witness ==
    /\ ApplyCalled
    /\ pc = "done"
    /\ resp.kind = "error"
    /\ repl.status \in CommitErrors
    /\ Len(repl.handed) = 2
    /\ Len(repl.applied) = 1
    /\ kv # kv0

\* some complete (key, value) pair of args does not decode
HasUndecodablePair(args) ==
    \E i \in 2 .. (Len(args) - 2) :
        i % 2 = 0 /\ ~decode(At(args, i), At(args, i + 1)).ok

\* C9: an applybinlogs call with a pair that does not decode returns an
\* error, applies nothing and does not invoke replMgr->applyBinlogs.
C9_UndecodableAppliesNothing ==
    (ApplyCalled /\ HasUndecodablePair(req.args)) =>
        /\ resp.kind = "error"
        /\ kv = kv0
        /\ repl.invoked = 0
        /\ trace.locks = 0

\* the pair that does not decode comes after a complete transaction
C9_Witness ==
    /\ ApplyCalled
    /\ HasUndecodablePair(req.args)
    /\ resp = ErrReply("decode")
    /\ trace.decoded # <<>>
    /\ ~BadFraming(trace.decoded)

\* the shard id of the request is a number outside [0, KVStoreCount)
StoreOutOfRange(args) == stoul(At(args, 1)).ok /\ stoul(At(args, 1)).value >= KVStoreCount

\* C10: applybinlogs and restorebinlog answer a record list of odd length,
\* and a shard id out of range, with a parameter error, change no storage and
\* read nothing past the end of the arguments.
C10_AsStated ==
    (/\ req.cmd \in {"applybinlogs", "restorebinlog"}
     /\ Len(req.args) % 2 = 1 \/ StoreOutOfRange(req.args)) =>
        /\ resp.kind = "error"
        /\ resp.code \in {"ERR_PARSEOPT", "stoul"}
        /\ ~trace.pastEnd
        /\ kv = kv0
        /\ repl.invoked = 0

\* the shard a request names is a shard of the server and is open
StoreArgOpen ==
    /\ stoul(At(req.args, 1)).ok
    /\ stoul(At(req.args, 1)).value < KVStoreCount
    /\ isOpen[stoul(At(req.args, 1)).value]

RestoreCalled == req.cmd = "restorebinlog"

\* every (key, value) pair of args decodes, and the records are of more than
\* one transaction
MixedTxnIds(args) ==
    /\ Len(args) % 2 = 0
    /\ ~HasUndecodablePair(args)
    /\ \E i, j \in 1 .. ((Len(args) - 2) \div 2) :
           decode(args[2 * i + 1], args[2 * i + 2]).value.txnId
               # decode(args[2 * j + 1], args[2 * j + 2]).value.txnId

\* C11: a restorebinlog request whose records decode and carry more than one
\* transaction id is answered with a parameter error; getDb is not called, no
\* shard lock is held, no transaction is created, no setKV or delKV is issued,
\* nothing is committed and the storage is as it was.
C11_RestoreMixedTxnRejected ==
    (RestoreCalled /\ MixedTxnIds(req.args)) =>
        /\ resp.kind = "error"
        /\ stoul(At(req.args, 1)).ok => resp.code = "ERR_PARSEOPT"
        /\ trace.locks = 0
        /\ lock = NoLock
        /\ trace.txns = 0
        /\ trace.writes = 0
        /\ trace.commits = 0
        /\ kv = kv0

\* two records that could be replayed, of two transactions, for an open shard
C11_Witness ==
    /\ RestoreCalled
    /\ MixedTxnIds(req.args)
    /\ StoreArgOpen
    /\ Len(trace.decoded) = 2
    /\ \A j \in 1 .. 2 : CanReplay(trace.decoded[j])
    /\ resp = ErrReply("ERR_PARSEOPT")

\* C12: restorebinlog commits once, after it has replayed every record in
\* input order, and the shard is then what SET (upsert) and DELETE (remove)
\* make of it in that order; when a record cannot be replayed, a setKV or
\* delKV fails or the commit fails, the call returns an error and the storage
\* is as it was before the call.
C12_RestoreAllOrNothing ==
    RestoreCalled =>
        LET n == Len(trace.decoded)
            failed == \/ \E j \in 1 .. n : ~CanReplay(trace.decoded[j])
                      \/ trace.fault.writeAt \in 1 .. n
                      \/ trace.fault.commit # "ERR_OK"
        IN  /\ resp = fmtOK =>
                   /\ trace.txns = 1
                   /\ trace.commits = 1
                   /\ trace.writes = n
                   /\ ~failed
                   /\ kv = [kv0 EXCEPT ![req.store] = Replay(@, trace.decoded)]
            /\ resp # fmtOK =>
                   /\ resp.kind = "error"
                   /\ kv = kv0
            /\ trace.commits = 1 => trace.writes = n
            /\ trace.commits <= 1
            /\ (trace.txns = 1 /\ failed) => resp.kind = "error"

\* a SET changed the key in the transaction and the DELETE after it failed:
\* the key is as before
C12_Witness ==
    /\ RestoreCalled
    /\ Len(trace.decoded) = 2
    /\ trace.decoded[1].op = REPL_OP_SET
    /\ trace.decoded[2].op = REPL_OP_DEL
    /\ trace.writes = 2
    /\ trace.fault.writeAt = 2
    /\ resp = ErrReply("ERR_INTERNAL")
    /\ kv0[req.store][1] = 1
    /\ kv = kv0

\* the invariant of a transaction batch: it is not empty, its records are of
\* one transaction, the first carries GROUP_START, the last GROUP_END, and no
\* other record carries either
BatchInvariant(logs) ==
    /\ logs # <<>>
    /\ \A j \in 1 .. Len(logs) : logs[j].txnId = logs[1].txnId
    /\ HasFlag(logs[1].flag, REPL_GROUP_START)
    /\ HasFlag(logs[Len(logs)].flag, REPL_GROUP_END)
    /\ Cardinality({j \in 1 .. Len(logs) : HasFlag(logs[j].flag, REPL_GROUP_START)}) = 1
    /\ Cardinality({j \in 1 .. Len(logs) : HasFlag(logs[j].flag, REPL_GROUP_END)}) = 1

\* C19: every batch applybinlogs hands to replMgr->applyBinlogs, and the
\* record sequence of every restorebinlog that issues a setKV or delKV,
\* satisfies the invariant of a transaction batch.
C19_AsStated ==
    /\ (ApplyCalled /\ repl.invoked = 1) =>
           \A i \in 1 .. Len(repl.handed) : BatchInvariant(repl.handed[i].logs)
    /\ (RestoreCalled /\ trace.writes > 0) => BatchInvariant(trace.decoded)

(***************************************************************************)
(* Properties of the shard locks.                                          *)
(***************************************************************************)
\* threads t and u are both inside the locked section of one shard
Overlap(t, u) ==
    /\ t # u
    /\ threads[t].at = "locked"
    /\ threads[u].at = "locked"
    /\ threads[t].store = threads[u].store

SlaveofCalled == req.cmd = "slaveof"

\* the forms of a slaveof request: slaveof no one, slaveof no one myStoreId,
\* slaveof ip port, slaveof ip port myStoreId sourceStoreId
IsNoOne(args) == toLower(args[2]) = NoWord /\ toLower(args[3]) = OneWord
DetachAll(args) == IsNoOne(args) /\ Len(args) = 3
DetachOne(args) == IsNoOne(args) /\ Len(args) = 4
AttachAll(args) == ~IsNoOne(args) /\ Len(args) = 3
AttachOne(args) == ~IsNoOne(args) /\ Len(args) = 5
\* the shard a request for one shard names
TargetOf(args) == std_stoul(args[4]).value

\* C14: when slaveof ip port s m has succeeded and the slaveof no one s after
\* it has succeeded, the source of shard s is ("", 0, 0) and the source of
\* every other shard is what it was before the two requests.
C14_AttachDetachRoundTrip ==
    (/\ SlaveofCalled
     /\ prev.cmd = "slaveof"
     /\ AttachOne(prev.args)
     /\ prev.reply = fmtOK
     /\ DetachOne(req.args)
     /\ resp = fmtOK
     /\ TargetOf(prev.args) = TargetOf(req.args)) =>
        /\ replSource[TargetOf(req.args)] = Detached
        /\ \A o \in Stores \ {TargetOf(req.args)} : replSource[o] = prev.before[o]

\* the shard was attached to another host and to a shard of another number,
\* the other shards have a source
C14_Witness ==
    /\ SlaveofCalled
    /\ prev.cmd = "slaveof"
    /\ AttachOne(prev.args)
    /\ prev.reply = fmtOK
    /\ DetachOne(req.args)
    /\ resp = fmtOK
    /\ TargetOf(prev.args) = TargetOf(req.args)
    /\ topo.before[TargetOf(req.args)].host = HostB
    /\ topo.before[TargetOf(req.args)].sourceStoreId # TargetOf(req.args)
    /\ prev.before[TargetOf(req.args)].host = HostA
    /\ \A o \in Stores \ {TargetOf(req.args)} : replSource[o].host = HostA

\* the handler called changeReplSource once for shard i, with the source d,
\* holding the lock of shard i in mode X
SetUnderX(i, d) ==
    /\ \E c \in 1 .. Len(topo.calls) :
           topo.calls[c] = [store |-> i, source |-> d, held |-> "X"]
    /\ Cardinality({c \in 1 .. Len(topo.calls) : topo.calls[c].store = i}) = 1
    /\ \E l \in 1 .. Len(topo.locks) : topo.locks[l] = [store |-> i, mode |-> "X"]

NotCalledFor(i) == \A c \in 1 .. Len(topo.calls) : topo.calls[c].store # i

\* C15: after a slaveof ip port that succeeded every open shard i has the
\* source (ip, port, i), set under the X lock of shard i, and every shard that
\* is not open has the source it had; after a slaveof no one that succeeded
\* every open shard has the source ("", 0, 0), set under its X lock, and every
\* shard that is not open has the source it had.
C15_SweepSetsEveryOpenShard ==
    (SlaveofCalled /\ resp = fmtOK) =>
        /\ AttachAll(req.args) =>
               \A i \in Stores :
                   IF isOpen[i]
                   THEN LET d == [host |-> req.args[2],
                                  port |-> std_stoul(req.args[3]).value,
                                  sourceStoreId |-> i]
                        IN  replSource[i] = d /\ SetUnderX(i, d)
                   ELSE replSource[i] = topo.before[i] /\ NotCalledFor(i)
        /\ DetachAll(req.args) =>
               \A i \in Stores :
                   IF isOpen[i]
                   THEN replSource[i] = Detached /\ SetUnderX(i, Detached)
                   ELSE replSource[i] = topo.before[i] /\ NotCalledFor(i)

\* all shards but the first were attached, the first is not open and keeps
\* the source it had
C15_Witness ==
    /\ SlaveofCalled
    /\ resp = fmtOK
    /\ AttachAll(req.args)
    /\ ~isOpen[0]
    /\ replSource[0] = SweepSource(HostA, 1, 0)
    /\ \A i \in Stores \ {0} :
           isOpen[i] /\ replSource[i] = [host |-> HostB, port |-> 1, sourceStoreId |-> i]

\* a slaveof for all shards whose arguments are accepted
SweepCalled ==
    /\ SlaveofCalled
    /\ \/ AttachAll(req.args) /\ std_stoul(req.args[3]).ok
       \/ DetachAll(req.args)

\* the source a slaveof for all shards gives shard i
SweepGives(i) ==
    IF AttachAll(req.args)
    THEN [host |-> req.args[2], port |-> std_stoul(req.args[3]).value, sourceStoreId |-> i]
    ELSE Detached

\* C16: a slaveof for all shards in which the getDb or the changeReplSource of
\* shard k fails returns that error; the open shards before k have their new
\* source, shard k and the shards after it have the source they had, and
\* changeReplSource is called for no shard after k, getDb neither.
C16_SweepStopsAtFirstError ==
    SweepCalled =>
        /\ topo.fault.what # "none" => resp.kind = "error"
        /\ resp.kind = "error" =>
               LET k == topo.fault.at
               IN  /\ topo.fault.what \in {"getDb", "changeReplSource"}
                   /\ resp = ErrReply(topo.fault.what)
                   /\ \A i \in Stores :
                          /\ (i < k /\ isOpen[i]) => replSource[i] = SweepGives(i)
                          /\ (i < k /\ ~isOpen[i]) => replSource[i] = topo.before[i]
                          /\ i >= k => replSource[i] = topo.before[i]
                   /\ \A c \in 1 .. Len(topo.calls) : topo.calls[c].store <= k
                   /\ \A l \in 1 .. Len(topo.locks) : topo.locks[l].store <= k

\* changeReplSource failed for the second shard: the first has its new
\* source, the second has the source it had
C16_Witness ==
    /\ SweepCalled
    /\ resp = ErrReply("changeReplSource")
    /\ topo.fault.at = 1
    /\ isOpen[0]
    /\ topo.before[0].host = HostA
    /\ replSource[0] = SweepGives(0)
    /\ replSource[1] = topo.before[1]
    /\ replSource[1].host = HostA
    /\ Len(topo.calls) = 2

\* slaveof ip port myStoreId sourceStoreId with a port and two shard ids that
\* are numbers
AttachOneCalled ==
    /\ SlaveofCalled
    /\ AttachOne(req.args)
    /\ std_stoul(req.args[3]).ok
    /\ std_stoul(req.args[4]).ok
    /\ std_stoul(req.args[5]).ok

\* C17: slaveof ip port myStoreId sourceStoreId with one of the two shard ids
\* out of range returns an error, takes no lock and changes no source;
\* otherwise it takes the X lock of the target only and, when it succeeds,
\* the source of the target is (ip, port, sourceStoreId) and the source of
\* every other shard is as it was; when it fails no source has changed.
C17_AttachOneChangesOnlyTarget ==
    AttachOneCalled =>
        LET t == std_stoul(req.args[4]).value
            m == std_stoul(req.args[5]).value
            d == [host |-> req.args[2], port |-> std_stoul(req.args[3]).value,
                  sourceStoreId |-> m]
        IN  IF t >= KVStoreCount \/ m >= KVStoreCount
            THEN /\ resp.kind = "error"
                 /\ replSource = topo.before
                 /\ topo.locks = <<>>
                 /\ topo.calls = <<>>
            ELSE /\ \A l \in 1 .. Len(topo.locks) : topo.locks[l] = [store |-> t, mode |-> "X"]
                 /\ Len(topo.locks) <= 1
                 /\ \A o \in Stores \ {t} : replSource[o] = topo.before[o]
                 /\ resp \in {fmtOK, ErrReply("getDb"), ErrReply("changeReplSource")}
                 /\ resp = fmtOK =>
                        /\ replSource[t] = d
                        /\ topo.calls = <<[store |-> t, source |-> d, held |-> "X"]>>
                        /\ topo.locks = <<[store |-> t, mode |-> "X"]>>
                 /\ resp # fmtOK => replSource[t] = topo.before[t]

\* the target was given the shard of another number as its source, the
\* other shards have the source they had
C17_Witness ==
    /\ AttachOneCalled
    /\ resp = fmtOK
    /\ std_stoul(req.args[4]).value # std_stoul(req.args[5]).value
    /\ replSource[std_stoul(req.args[4]).value].sourceStoreId = std_stoul(req.args[5]).value
    /\ replSource[std_stoul(req.args[4]).value].host = HostB
    /\ \A o \in Stores \ {std_stoul(req.args[4]).value} : replSource[o].host = HostA

\* C20: a slaveof request that has none of the four forms returns an error
\* and changes the source of no shard.
C20_AsStated ==
    (/\ SlaveofCalled
     /\ ~DetachAll(req.args)
     /\ ~DetachOne(req.args)
     /\ ~AttachAll(req.args)
     /\ ~AttachOne(req.args)) =>
        /\ resp.kind = "error"
        /\ replSource = topo.before
        /\ topo.calls = <<>>

(***************************************************************************)
(* Properties of all commands.                                             *)
(***************************************************************************)
\* the shard id of a request for one shard
DirectedTarget ==
    IF req.cmd = "pullbinlogs" THEN stoul(req.args[1])
    ELSE IF req.cmd \in {"applybinlogs", "restorebinlog"} THEN stoul(req.args[2])
    ELSE IF SlaveofCalled /\ (AttachOne(req.args) \/ DetachOne(req.args))
    THEN std_stoul(req.args[4])
    ELSE [ok |-> FALSE, value |-> 0]

\* the records of the (key, value) pairs of args
PairsOf(args) ==
    [i \in 1 .. ((Len(args) - 2) \div 2) |-> decode(args[2 * i + 1], args[2 * i + 2]).value]

\* but for the shard it names the request is one its handler accepts
OtherwiseAccepted ==
    IF req.cmd = "pullbinlogs" THEN stoul(req.args[2]).ok
    ELSE IF req.cmd = "applybinlogs"
    THEN /\ Len(req.args) % 2 = 0
         /\ ~HasUndecodablePair(req.args)
         /\ ~BadFraming(PairsOf(req.args))
    ELSE IF req.cmd = "restorebinlog"
    THEN /\ Len(req.args) % 2 = 0
         /\ ~HasUndecodablePair(req.args)
         /\ ~MixedTxnIds(req.args)
    ELSE IF AttachOne(req.args)
    THEN /\ std_stoul(req.args[3]).ok
         /\ std_stoul(req.args[5]).ok
         /\ std_stoul(req.args[5]).value < KVStoreCount
    ELSE TRUE

\* the request has changed nothing and has taken no lock
NothingDone ==
    /\ kv = kv0
    /\ replSource = topo.before
    /\ repl.invoked = 0
    /\ lock = NoLock
    /\ trace.locks = 0
    /\ topo.locks = <<>>
    /\ topo.calls = <<>>
    /\ req.cmd = "pullbinlogs" => delivered = <<>>

\* the sweep has dealt with shard i
SweptShard(i) ==
    IF req.cmd = "backup"
    THEN \E b \in 1 .. Len(topo.backups) : topo.backups[b] = i
    ELSE replSource[i] = SweepGives(i) /\ ~NotCalledFor(i)

\* C18: a request for one shard (pullbinlogs, applybinlogs, restorebinlog,
\* slaveof with a shard id) that names a shard out of range or a shard that
\* is not open does not succeed and changes nothing, and when its other
\* arguments are accepted it returns an error, the error of getDb when the
\* shard is in range; a request for all shards (slaveof ip port, slaveof no
\* one, backup) returns an error only when a getDb, a changeReplSource or a
\* backup fails: it passes over the shards that are not open, deals with
\* every open shard and succeeds.
C18_ShardStateErrorsByScope ==
    /\ (/\ DirectedTarget.ok
        /\ DirectedTarget.value >= KVStoreCount \/ ~isOpen[DirectedTarget.value]) =>
           /\ resp.kind \in {"error", "fatal", "crash"}
           /\ NothingDone
           /\ OtherwiseAccepted =>
                  /\ resp.kind = "error"
                  /\ DirectedTarget.value < KVStoreCount => resp = ErrReply("getDb")
    /\ (SweepCalled \/ req.cmd = "backup") =>
           /\ resp.kind = "error" => topo.fault.what # "none"
           /\ topo.fault.what = "none" =>
                  /\ resp \in {fmtOK, BackupDone}
                  /\ \A i \in Stores :
                         IF isOpen[i] THEN SweptShard(i)
                         ELSE /\ replSource[i] = topo.before[i]
                              /\ NotCalledFor(i)
                              /\ \A b \in 1 .. Len(topo.backups) : topo.backups[b] # i

\* a slaveof for the shard that is not open was answered with the error of
\* getDb, and the slaveof for all shards after it succeeded: it passed over
\* the first shard and set the source of the shards after it
C18_Witness ==
    /\ prev.cmd = "slaveof"
    /\ AttachOne(prev.args)
    /\ TargetOf(prev.args) \in Stores
    /\ ~isOpen[TargetOf(prev.args)]
    /\ prev.reply = ErrReply("getDb")
    /\ SweepCalled
    /\ AttachAll(req.args)
    /\ resp = fmtOK
    /\ ~isOpen[0]
    /\ replSource[0] = topo.before[0]
    /\ \A i \in Stores \ {0} : replSource[i].host = req.args[2]

\* thread t holds at most one shard lock
AtMostOneLock == \A t \in Threads : Cardinality(threads[t].held) <= 1

\* a thread that asks for the lock of a shard no other thread is at gets it
NoCrossShardWait ==
    \A t \in Threads :
        (/\ threads[t].at = "getDb"
         /\ threads[t].sweep \/ isOpen[threads[t].store]
         /\ \A u \in Threads \ {t} :
                threads[u].at = "idle" \/ threads[u].store # threads[t].store)
            => ENABLED GetDb(t)

\* when a thread serves a request, some thread that serves one can go on
NoDeadlock ==
    (\E t \in Threads : threads[t].at # "idle")
        => \E t \in Threads : ENABLED (GetDb(t) \/ GetDbFails(t) \/ Unlock(t))

\* C21: a thread holds at most one shard lock at any time; requests that run
\* at the same time never block each other for good, a request for a shard no
\* other request is at does not wait, and, when the threads run, the calls
\* made under a lock return and locks are granted in the order they are asked
\* for, every request completes.
C21_EveryRequestCompletes ==
    /\ [](AtMostOneLock /\ NoCrossShardWait /\ NoDeadlock)
    /\ \A t \in Threads : (threads[t].at # "idle") ~> (threads[t].at = "idle")

\* a slaveof for all shards has released the first shard and holds the lock
\* of the second, a backup that asked after it holds the lock of the first,
\* and none waits
C21_Witness ==
    \E t, u \in Threads :
        /\ threads[t].op = "slaveof"
        /\ threads[t].sweep
        /\ threads[t].at = "locked"
        /\ threads[t].held = {1}
        /\ threads[u].op = "backup"
        /\ threads[u].at = "locked"
        /\ threads[u].held = {0}
====
